---------------------------- MODULE Spec2Model ----------------------------
(***************************************************************************)
(* Model of download_cc400.py: main() runs check_existing_downloads, then   *)
(* download_abide_cc400 (an outer retry loop around nilearn's               *)
(* fetch_abide_pcp), then save_phenotypic_data, then verify_cc400_files.    *)
(*                                                                          *)
(* Python strings are sequences of one-character strings.  An optional      *)
(* value (None or a value) is a sequence of length 0 or 1.                  *)
(***************************************************************************)
EXTENDS Integers, Sequences, FiniteSets

(***************************************************************************)
(* Configuration (lines 13-24, 67) and the literals of verify_cc400_files.  *)
(***************************************************************************)
MAX_RETRIES == 5
BACKOFF_FACTOR == 2
max_attempts == 3
ZFillWidth == 7
PatternDigits == 7

\* Bounds of the model: rows of the phenotypic table, entries of the directory.
MaxRows == 3
MaxFiles == 2

(***************************************************************************)
(* Strings.                                                                 *)
(***************************************************************************)
UpperLetters ==
  <<"A","B","C","D","E","F","G","H","I","J","K","L","M",
    "N","O","P","Q","R","S","T","U","V","W","X","Y","Z">>
LowerLetters ==
  <<"a","b","c","d","e","f","g","h","i","j","k","l","m",
    "n","o","p","q","r","s","t","u","v","w","x","y","z">>
DigitChars == <<"0","1","2","3","4","5","6","7","8","9">>

\* str.lower() on one character
LowerChar(c) ==
  IF \E i \in 1..Len(UpperLetters) : UpperLetters[i] = c
  THEN LowerLetters[CHOOSE i \in 1..Len(UpperLetters) : UpperLetters[i] = c]
  ELSE c

\* str.lower()
lower(s) == [i \in 1..Len(s) |-> LowerChar(s[i])]

\* the regex class \d
IsDigit(c) == \E i \in 1..Len(DigitChars) : DigitChars[i] = c

\* str.endswith(suffix)
endswith(s, suffix) ==
  /\ Len(suffix) <= Len(s)
  /\ SubSeq(s, Len(s) - Len(suffix) + 1, Len(s)) = suffix

\* str(n) for an int n >= 0: its decimal digits
RECURSIVE IntToStr(_)
IntToStr(n) ==
  IF n < 10 THEN <<DigitChars[n + 1]>>
  ELSE IntToStr(n \div 10) \o <<DigitChars[(n % 10) + 1]>>

\* A cell of the SUB_ID column: an int or a str.
IntCell(n) == [kind |-> "int", n |-> n, s |-> <<>>]
StrCell(s) == [kind |-> "str", n |-> 0, s |-> s]

\* Series.astype(str) on one cell
astype_str(cell) == IF cell.kind = "int" THEN IntToStr(cell.n) ELSE cell.s

Zeros(k) == [i \in 1..k |-> "0"]

\* a variant of zfill that pads on the right
zfill_ljust(s, width) == IF Len(s) >= width THEN s ELSE s \o Zeros(width - Len(s))

\* str.zfill(width): pad on the left with zeros, after a leading sign;
\* a string already that long is returned unchanged.
zfill(s, width) ==
  IF Len(s) >= width THEN s
  ELSE IF Len(s) > 0 /\ s[1] \in {"+", "-"}
       THEN <<s[1]>> \o Zeros(width - Len(s)) \o Tail(s)
       ELSE Zeros(width - Len(s)) \o s

\* line 149: the normalized SUB_ID_STR of one cell
SUB_ID_STR(cell) == zfill(astype_str(cell), ZFillWidth)

(***************************************************************************)
(* The pattern  _(\d{7})_rois_cc400\.1d  with re.IGNORECASE (lines 167-170) *)
(***************************************************************************)
PatternTail == <<"_","r","o","i","s","_","c","c","4","0","0",".","1","d">>
Ext1D == <<".","1","d">>

\* the pattern matches f starting at position i
MatchAt(f, i) ==
  /\ i + PatternDigits + Len(PatternTail) <= Len(f)
  /\ f[i] = "_"
  /\ \A k \in 1..PatternDigits : IsDigit(f[i + k])
  /\ \A k \in 1..Len(PatternTail) :
        LowerChar(f[i + PatternDigits + k]) = PatternTail[k]

\* pattern.search(f): <<>> for None, else <<group(1)>> of the leftmost match
pattern_search(f) ==
  IF \E i \in 1..Len(f) : MatchAt(f, i)
  THEN LET i == CHOOSE j \in 1..Len(f) :
                  MatchAt(f, j) /\ \A k \in 1..(j - 1) : ~MatchAt(f, k)
       IN  <<SubSeq(f, i + 1, i + PatternDigits)>>
  ELSE <<>>


(***************************************************************************)
(* Exceptions.  An exception is a record of its class and, for an HTTP      *)
(* error, the response status (0 otherwise).  Ancestors(c) is the set of    *)
(* classes an instance of c is an instance of (requests.exceptions and the  *)
(* builtins), which decides the except clauses of lines 89-91, 107, 274,    *)
(* 278.                                                                     *)
(***************************************************************************)
Exc(c, st) == [cls |-> c, status |-> st]

Ancestors(c) ==
  CASE c = "requests.ConnectionError" ->
         {c, "requests.RequestException", "OSError", "Exception", "BaseException"}
    [] c = "requests.Timeout" ->
         {c, "requests.RequestException", "OSError", "Exception", "BaseException"}
    [] c = "requests.ReadTimeout" ->
         {c, "requests.Timeout",
          "requests.RequestException", "OSError", "Exception", "BaseException"}
    [] c = "requests.HTTPError" ->
         {c, "requests.RequestException", "OSError", "Exception", "BaseException"}
    [] c = "TimeoutError" -> {c, "OSError", "Exception", "BaseException"}
    [] c = "ConnectionResetError" ->
         {c, "ConnectionError", "OSError", "Exception", "BaseException"}
    [] c = "PermissionError" -> {c, "OSError", "Exception", "BaseException"}
    [] c = "KeyboardInterrupt" -> {c, "BaseException"}
    [] OTHER -> {c, "Exception", "BaseException"}

isinstance(e, c) == c \in Ancestors(e.cls)

\* line 37: the status_forcelist given to the session's Retry
status_forcelist == {429, 500, 502, 503, 504}

\* lines 30-50: configure_session builds and returns a session
configure_session ==
  [total            |-> MAX_RETRIES,
   backoff_factor   |-> BACKOFF_FACTOR,
   status_forcelist |-> status_forcelist,
   allowed_methods  |-> {"HEAD", "GET", "OPTIONS"},
   mounted          |-> {"http://", "https://"}]

\* variants of the first except clause: `except Exception`, and a bare `except`
RetryCaught_exception == {"Exception"}
RetryCaught_bare == {"BaseException"}

\* lines 89-91: the classes of the first except clause of the retry loop
RetryCaught == {"requests.ConnectionError", "requests.Timeout", "TimeoutError"}

\* lines 89-91: the first except clause catches e
IsRetryable(e) == \E c \in RetryCaught : isinstance(e, c)

\* line 107: the second except clause catches e
IsUnexpected(e) == ~IsRetryable(e) /\ isinstance(e, "Exception")

\* line 69: the loop condition
LoopCond(a) == a < max_attempts

\* a variant of the test of line 93 that is off by one
RetriesRemain_offbyone(a) == a <= max_attempts

\* line 93: after a caught failure, whether a wait and another attempt follow
RetriesRemain(a) == a < max_attempts

\* a variant of line 94 without the exponent
wait_time_of_flat(a) == BACKOFF_FACTOR * 10

\* line 94: the backoff wait, in seconds
wait_time_of(a) == (BACKOFF_FACTOR ^ a) * 10

\* What fetch_abide_pcp (line 76) can raise: the transfer's errors and a
\* user interruption.  The session of line 74 is not passed to it.
HttpStatuses == status_forcelist \cup {404}
FetchErrors ==
  {Exc(c, 0) : c \in {"requests.ConnectionError", "requests.ReadTimeout",
                      "TimeoutError",
                      "ConnectionResetError", "OSError", "KeyboardInterrupt"}}
    \cup {Exc("requests.HTTPError", st) : st \in HttpStatuses}

(***************************************************************************)
(* Inputs: the rows fetch_abide_pcp returns and the directory's entries.    *)
(***************************************************************************)
RoisTail == <<"_","r","o","i","s","_","c","c","4","0","0",".","1","D">>
Id123 == <<"0","0","0","0","1","2","3">>
Id001 == <<"0","0","0","0","0","0","1">>
Id004 == <<"0","0","0","0","0","0","4">>

FileNames ==
  << <<"P">> \o <<"_">> \o Id123 \o RoisTail,
     <<"U","M","_","1">> \o <<"_">> \o Id123 \o lower(RoisTail),
     <<"N">> \o <<"_">> \o Id001 \o RoisTail,
     <<"K">> \o <<"_">> \o Id004 \o RoisTail,
     <<"X">> \o <<"_">> \o <<"1","2","3","4","5","6","7","8">> \o RoisTail,
     <<"n","o","t","e","s",".","t","x","t">> >>

RowChoices ==
  << [SUB_ID |-> IntCell(123), DX_GROUP |-> 1],
     [SUB_ID |-> StrCell(<<"1","2","3">>), DX_GROUP |-> 2],
     [SUB_ID |-> StrCell(Id123), DX_GROUP |-> 1],
     [SUB_ID |-> IntCell(1), DX_GROUP |-> 2],
     [SUB_ID |-> IntCell(12345678), DX_GROUP |-> 1] >>

\* the strictly increasing index sequences of length at most n over 1..m
IncSeqs(m, n) ==
  UNION {{q \in [1..k -> 1..m] : \A i \in 1..(k - 1) : q[i] < q[i + 1]} : k \in 0..n}

\* the phenotypic tables a fetch can return
Datasets ==
  {[i \in 1..Len(q) |-> RowChoices[q[i]]] : q \in IncSeqs(Len(RowChoices), MaxRows)}

\* the directory contents: at most MaxFiles entries
Listings ==
  {{FileNames[q[i]] : i \in 1..Len(q)} : q \in IncSeqs(Len(FileNames), MaxFiles)}

\* the orders in which os.listdir can return the entries of S
Orders(S) ==
  {q \in [1..Cardinality(S) -> S] : \A i, j \in 1..Cardinality(S) : i # j => q[i] # q[j]}

(***************************************************************************)
(* State.                                                                   *)
(***************************************************************************)
VARIABLES
  pc,               \* where main() is
  fs,               \* the CC400 directory: whether it exists, and its entries
  existing_count,   \* main: what check_existing_downloads returned
  attempt,          \* download_abide_cc400: the attempt counter
  session,          \* download_abide_cc400: the session of line 74
  wait_time,        \* download_abide_cc400: the wait of line 94
  exc,              \* the exception being handled or propagating, if any
  fetch_exc,        \* what the latest call of fetch_abide_pcp raised, if anything
  download_result,  \* how download_abide_cc400 ended, as its caller sees it
  dataset,          \* main: the dataset download_abide_cc400 returned
  phenotypic_df,    \* main: the table save_phenotypic_data returned
  csv_file,         \* phenotypic/phenotypic_data.csv on disk
  csv_subjects, dir_subjects, in_both, missing_from_dir, extra_in_dir,
                    \* verify_cc400_files: its locals
  dir_found,        \* verify_cc400_files: the test of line 157, once made
  stats,            \* main: what verify_cc400_files returned
  events,           \* the calls made so far, in order, each with how it ended
  waits,            \* the intervals time.sleep was called with, in order
  stdout, stderr,   \* what was printed
  outcome,          \* which way main ended
  exit_status       \* the process's exit status, once it has ended

vars ==
  <<pc, fs, existing_count, attempt, session, wait_time, exc, fetch_exc,
    download_result, dataset, phenotypic_df, csv_file, csv_subjects,
    dir_subjects, in_both, missing_from_dir, extra_in_dir, dir_found, stats,
    events, waits, stdout, stderr, outcome, exit_status>>

download_vars == <<attempt, session, wait_time, fetch_exc, download_result, waits>>
verify_vars ==
  <<csv_subjects, dir_subjects, in_both, missing_from_dir, extra_in_dir,
    dir_found, stats>>

Line(text, cls, n) == [text |-> text, cls |-> cls, n |-> n]
Event(op, result) == [op |-> op, result |-> result]
EmptyDict == [k \in {} |-> <<>>]

\* the files a fetch may have added to the directory by the time it ends
Grow(d) ==
  {d} \cup {[exists |-> TRUE, files |-> L] :
              L \in {M \in Listings : d.exists => d.files \subseteq M}}

\* lines 161, 231: the entries whose lower-cased name ends with .1d
OneDFiles(d) == {f \in d.files : endswith(lower(f), Ext1D)}

Init ==
  /\ pc = "check_existing"
  /\ fs \in {[exists |-> FALSE, files |-> {}]}
              \cup {[exists |-> TRUE, files |-> L] : L \in Listings}
  /\ existing_count = 0
  /\ attempt = 0
  /\ session = <<>>
  /\ wait_time = 0
  /\ exc = <<>>
  /\ fetch_exc = <<>>
  /\ download_result = <<>>
  /\ dataset = <<>>
  /\ phenotypic_df = <<>>
  /\ csv_file = <<>>
  /\ csv_subjects = {}
  /\ dir_subjects = EmptyDict
  /\ in_both = {}
  /\ missing_from_dir = {}
  /\ extra_in_dir = {}
  /\ dir_found = <<>>
  /\ stats = <<>>
  /\ events = <<>>
  /\ waits = <<>>
  /\ stdout = <<>>
  /\ stderr = <<>>
  /\ outcome = "running"
  /\ exit_status = <<>>

(***************************************************************************)
(* main, lines 245-249, with check_existing_downloads, lines 223-233.       *)
(***************************************************************************)
check_existing_downloads ==
  /\ pc = "check_existing"
  /\ LET n == IF fs.exists THEN Cardinality(OneDFiles(fs)) ELSE 0
     IN  /\ existing_count' = n
         /\ stdout' = stdout
              \o (IF fs.exists THEN <<Line("Found existing .1D files", "", n)>>
                  ELSE <<Line("No existing downloads found.", "", 0)>>)
              \o (IF n > 0 THEN <<Line("Resuming download", "", n)>> ELSE <<>>)
  /\ pc' = "loop"
  /\ UNCHANGED <<fs, exc, dataset, phenotypic_df, csv_file, events, stderr,
                 outcome, exit_status>>
  /\ UNCHANGED download_vars
  /\ UNCHANGED verify_vars

\* os.listdir (line 231) raises outside main's try: the interpreter prints the
\* traceback and exits with status 1.
check_existing_listdir_fails ==
  /\ pc = "check_existing"
  /\ fs.exists
  /\ exc' = <<Exc("PermissionError", 0)>>
  /\ stderr' = Append(stderr, Line("Traceback", "PermissionError", 0))
  /\ outcome' = "uncaught"
  /\ exit_status' = <<1>>
  /\ pc' = "done"
  /\ UNCHANGED <<fs, existing_count, dataset, phenotypic_df, csv_file, events,
                 stdout>>
  /\ UNCHANGED download_vars
  /\ UNCHANGED verify_vars

(***************************************************************************)
(* download_abide_cc400, lines 56-110.  One action per way an iteration of  *)
(* the loop can go; each starts at the loop test of line 69 and ends at the *)
(* next blocking call, at the loop test again, or with the function's end.  *)
(***************************************************************************)
\* a variant of main's try block that verifies before it saves
TryNext_verify_first(step) ==
  CASE step = "download" -> "verify"
    [] step = "verify" -> "save"
    [] step = "save" -> "summary"

\* lines 253-259: the statement of main's try block that follows `step`
TryNext(step) ==
  CASE step = "download" -> "save"
    [] step = "save" -> "verify"
    [] step = "verify" -> "summary"

\* the exception e leaves download_abide_cc400
Raise(e) ==
  /\ exc' = <<e>>
  /\ download_result' = <<[kind |-> "raised", exc |-> <<e>>]>>
  /\ pc' = "propagate"

\* lines 71-87: the fetch returns a dataset
fetch_returns ==
  /\ pc = "loop"
  /\ LoopCond(attempt)
  /\ session' = <<configure_session>>
  /\ \E d \in Datasets : dataset' = <<[phenotypic |-> d]>>
  /\ fs' \in Grow(fs)
  /\ fetch_exc' = <<>>
  /\ events' = Append(events, Event("fetch", "ok"))
  /\ stdout' = stdout \o <<Line("Attempt", "", attempt + 1),
                           Line("Download completed successfully!", "", 0)>>
  /\ download_result' = <<[kind |-> "returned", exc |-> <<>>]>>
  /\ pc' = TryNext("download")
  /\ UNCHANGED <<existing_count, attempt, wait_time, exc, phenotypic_df,
                 csv_file, waits, stderr, outcome, exit_status>>
  /\ UNCHANGED verify_vars

\* lines 89-105: the fetch raises an exception the first except clause catches
fetch_fails_retryable ==
  /\ pc = "loop"
  /\ LoopCond(attempt)
  /\ session' = <<configure_session>>
  /\ fs' \in Grow(fs)
  /\ \E e \in FetchErrors :
       /\ IsRetryable(e)
       /\ fetch_exc' = <<e>>
       /\ events' = Append(events, Event("fetch", "raised"))
       /\ attempt' = attempt + 1
       /\ IF RetriesRemain(attempt')
          THEN /\ wait_time' = wait_time_of(attempt')
               /\ stdout' = stdout \o <<Line("Attempt", "", attempt + 1),
                                        Line("Download failed", e.cls, 0),
                                        Line("Waiting before retry", "", wait_time')>>
               /\ waits' = Append(waits, wait_time')
               /\ exc' = <<e>>
               /\ pc' = "sleep"
               /\ UNCHANGED download_result
          ELSE /\ stdout' = stdout \o <<Line("Attempt", "", attempt + 1),
                                        Line("Failed after attempts", "", max_attempts),
                                        Line("Suggestions", "", 0)>>
               /\ Raise(e)
               /\ UNCHANGED <<wait_time, waits>>
  /\ UNCHANGED <<existing_count, dataset, phenotypic_df, csv_file, stderr,
                 outcome, exit_status>>
  /\ UNCHANGED verify_vars

\* lines 107-110: the fetch raises another Exception
fetch_fails_unexpected ==
  /\ pc = "loop"
  /\ LoopCond(attempt)
  /\ session' = <<configure_session>>
  /\ fs' \in Grow(fs)
  /\ \E e \in FetchErrors :
       /\ IsUnexpected(e)
       /\ fetch_exc' = <<e>>
       /\ stdout' = stdout \o <<Line("Attempt", "", attempt + 1),
                                Line("Unexpected error", e.cls, 0),
                                Line("Message", e.cls, e.status)>>
       /\ Raise(e)
  /\ events' = Append(events, Event("fetch", "raised"))
  /\ UNCHANGED <<existing_count, attempt, wait_time, dataset, phenotypic_df,
                 csv_file, waits, stderr, outcome, exit_status>>
  /\ UNCHANGED verify_vars

\* the fetch raises an exception neither except clause catches
fetch_interrupted ==
  /\ pc = "loop"
  /\ LoopCond(attempt)
  /\ session' = <<configure_session>>
  /\ fs' \in Grow(fs)
  /\ \E e \in FetchErrors :
       /\ ~IsRetryable(e)
       /\ ~IsUnexpected(e)
       /\ fetch_exc' = <<e>>
       /\ Raise(e)
  /\ events' = Append(events, Event("fetch", "raised"))
  /\ stdout' = Append(stdout, Line("Attempt", "", attempt + 1))
  /\ UNCHANGED <<existing_count, attempt, wait_time, dataset, phenotypic_df,
                 csv_file, waits, stderr, outcome, exit_status>>
  /\ UNCHANGED verify_vars

\* line 97: time.sleep returns; the handler ends and the loop goes round
sleep_returns ==
  /\ pc = "sleep"
  /\ events' = Append(events, Event("sleep", "ok"))
  /\ exc' = <<>>
  /\ pc' = "loop"
  /\ UNCHANGED <<fs, existing_count, dataset, phenotypic_df, csv_file, stdout,
                 stderr, outcome, exit_status>>
  /\ UNCHANGED download_vars
  /\ UNCHANGED verify_vars

\* line 97: the user interrupts time.sleep, inside the except clause
sleep_interrupted ==
  /\ pc = "sleep"
  /\ events' = Append(events, Event("sleep", "raised"))
  /\ Raise(Exc("KeyboardInterrupt", 0))
  /\ UNCHANGED <<fs, existing_count, attempt, session, wait_time, fetch_exc,
                 waits, dataset, phenotypic_df, csv_file, stdout, stderr,
                 outcome, exit_status>>
  /\ UNCHANGED verify_vars

(***************************************************************************)
(* save_phenotypic_data, lines 116-137.                                     *)
(***************************************************************************)
\* line 127: the binary label
LabelOf(x) == IF x = 1 THEN 1 ELSE 0

\* lines 121-127: the copy of the table, with its label column
WithLabel(rows) ==
  [i \in 1..Len(rows) |->
     [SUB_ID |-> rows[i].SUB_ID, DX_GROUP |-> rows[i].DX_GROUP,
      label |-> LabelOf(rows[i].DX_GROUP)]]

save_phenotypic_data ==
  /\ pc = "save"
  /\ LET phenotypic == WithLabel(dataset[1].phenotypic)
     IN  /\ csv_file' = <<phenotypic>>
         /\ phenotypic_df' = phenotypic
         /\ stdout' = stdout \o <<Line("Phenotypic CSV saved", "", 0),
                                  Line("Total subjects", "", Len(phenotypic))>>
  /\ events' = Append(events, Event("save", "ok"))
  /\ pc' = TryNext("save")
  /\ UNCHANGED <<fs, existing_count, exc, dataset, stderr, outcome, exit_status>>
  /\ UNCHANGED download_vars
  /\ UNCHANGED verify_vars

\* lines 130-133: os.makedirs or to_csv raises (the disk cannot be written)
save_fails ==
  /\ pc = "save"
  /\ exc' = <<Exc("OSError", 0)>>
  /\ events' = Append(events, Event("save", "raised"))
  /\ pc' = "propagate"
  /\ UNCHANGED <<fs, existing_count, dataset, phenotypic_df, csv_file, stdout,
                 stderr, outcome, exit_status>>
  /\ UNCHANGED download_vars
  /\ UNCHANGED verify_vars

(***************************************************************************)
(* verify_cc400_files, lines 143-217.  The per-file lines of the report     *)
(* (lines 194-206) are not kept in stdout; the counts are.                  *)
(***************************************************************************)
\* line 149: the table with its SUB_ID_STR column
WithSubIdStr(rows) ==
  [i \in 1..Len(rows) |->
     [SUB_ID |-> rows[i].SUB_ID, DX_GROUP |-> rows[i].DX_GROUP,
      label |-> rows[i].label, SUB_ID_STR |-> SUB_ID_STR(rows[i].SUB_ID)]]

\* line 150
CsvSubjects(rows) == {rows[i].SUB_ID_STR : i \in 1..Len(rows)}

\* line 176: d[k] = v
DictSet(d, k, v) == [x \in (DOMAIN d) \cup {k} |-> IF x = k THEN v ELSE d[x]]

\* lines 172-176: dir_subjects after the first n files of the listing
RECURSIVE BuildDirSubjects(_, _)
BuildDirSubjects(files, n) ==
  IF n = 0 THEN EmptyDict
  ELSE LET d == BuildDirSubjects(files, n - 1)
           m == pattern_search(files[n])
       IN  IF m # <<>> THEN DictSet(d, m[1], files[n]) ELSE d

\* a variant of line 183 without the difference
ExtraInDir_all(csv, dir) == dir

\* lines 181-183
InBoth(csv, dir) == csv \cap dir
MissingFromDir(csv, dir) == csv \ dir
ExtraInDir(csv, dir) == dir \ csv

\* lines 213-217
Stats(both, missing, extra) ==
  [matched |-> Cardinality(both), missing |-> Cardinality(missing),
   extra |-> Cardinality(extra)]

verify_cc400_files ==
  /\ pc = "verify"
  /\ phenotypic_df' = WithSubIdStr(phenotypic_df)
  /\ csv_subjects' = CsvSubjects(phenotypic_df')
  /\ dir_found' = <<fs.exists>>
  /\ IF ~fs.exists
     THEN \* lines 157-159: a bare return
          /\ stdout' = Append(stdout, Line("Directory not found", "", 0))
          /\ stats' = <<>>
          /\ UNCHANGED <<dir_subjects, in_both, missing_from_dir, extra_in_dir>>
     ELSE \E actual_files \in Orders(OneDFiles(fs)) :
            /\ dir_subjects' = BuildDirSubjects(actual_files, Len(actual_files))
            /\ in_both' = InBoth(csv_subjects', DOMAIN dir_subjects')
            /\ missing_from_dir' = MissingFromDir(csv_subjects', DOMAIN dir_subjects')
            /\ extra_in_dir' = ExtraInDir(csv_subjects', DOMAIN dir_subjects')
            /\ stats' = <<Stats(in_both', missing_from_dir', extra_in_dir')>>
            /\ stdout' = stdout
                 \o <<Line("Subjects in CSV", "", Cardinality(csv_subjects')),
                      Line(".1D files found", "", Len(actual_files)),
                      Line("Matched subjects", "", Cardinality(in_both')),
                      Line("Missing files", "", Cardinality(missing_from_dir')),
                      Line("Extra files", "", Cardinality(extra_in_dir'))>>
                 \o (IF missing_from_dir' = {} /\ extra_in_dir' = {}
                     THEN <<Line("PERFECT MATCH", "", 0)>> ELSE <<>>)
  /\ events' = Append(events, Event("verify", "ok"))
  /\ pc' = TryNext("verify")
  /\ UNCHANGED <<fs, existing_count, exc, dataset, csv_file, stderr, outcome,
                 exit_status>>
  /\ UNCHANGED download_vars

\* line 161: os.listdir raises
verify_listdir_fails ==
  /\ pc = "verify"
  /\ fs.exists
  /\ phenotypic_df' = WithSubIdStr(phenotypic_df)
  /\ csv_subjects' = CsvSubjects(phenotypic_df')
  /\ dir_found' = <<TRUE>>
  /\ exc' = <<Exc("PermissionError", 0)>>
  /\ events' = Append(events, Event("verify", "raised"))
  /\ pc' = "propagate"
  /\ UNCHANGED <<fs, existing_count, dataset, csv_file, stdout, stderr, outcome,
                 exit_status, dir_subjects, in_both, missing_from_dir,
                 extra_in_dir, stats>>
  /\ UNCHANGED download_vars

(***************************************************************************)
(* main, lines 261-281.                                                     *)
(***************************************************************************)
\* lines 261-272: the summary; stats['matched'] on None raises TypeError
summary ==
  /\ pc = "summary"
  /\ IF stats = <<>>
     THEN /\ exc' = <<Exc("TypeError", 0)>>
          /\ stdout' = stdout \o <<Line("SUMMARY", "", 0),
                                   Line("Download completed", "", 0),
                                   Line("Phenotypic data saved", "", 0)>>
          /\ pc' = "propagate"
          /\ UNCHANGED <<outcome, exit_status>>
     ELSE /\ stdout' = stdout
               \o <<Line("SUMMARY", "", 0),
                    Line("Download completed", "", 0),
                    Line("Phenotypic data saved", "", 0),
                    Line("Files verified", "", stats[1].matched)>>
               \o (IF stats[1].missing > 0 \/ stats[1].extra > 0
                   THEN <<Line("Note: re-run to resume", "", 0)>> ELSE <<>>)
          /\ outcome' = "completed"
          /\ exit_status' = <<0>>
          /\ pc' = "done"
          /\ UNCHANGED exc
  /\ UNCHANGED <<fs, existing_count, dataset, phenotypic_df, csv_file, events,
                 stderr>>
  /\ UNCHANGED download_vars
  /\ UNCHANGED verify_vars

\* line 274
MainCatchesInterrupt(e) == isinstance(e, "KeyboardInterrupt")

\* line 278
MainCatchesException(e) == ~MainCatchesInterrupt(e) /\ isinstance(e, "Exception")

\* main returns without calling sys.exit: the interpreter exits with status 0
ExitAfterReturn == <<0>>

\* lines 274-276
except_keyboard_interrupt ==
  /\ pc = "propagate"
  /\ MainCatchesInterrupt(exc[1])
  /\ stdout' = stdout \o <<Line("Download interrupted by user", "", 0),
                           Line("You can re-run this script", "", 0)>>
  /\ outcome' = "interrupted"
  /\ exit_status' = ExitAfterReturn
  /\ pc' = "done"
  /\ UNCHANGED <<fs, existing_count, exc, dataset, phenotypic_df, csv_file,
                 events, stderr>>
  /\ UNCHANGED download_vars
  /\ UNCHANGED verify_vars

\* lines 278-281
except_exception ==
  /\ pc = "propagate"
  /\ MainCatchesException(exc[1])
  /\ stdout' = stdout \o <<Line("Error occurred", exc[1].cls, 0),
                           Line("Message", exc[1].cls, exc[1].status),
                           Line("You can re-run this script", "", 0)>>
  /\ outcome' = "error"
  /\ exit_status' = ExitAfterReturn
  /\ pc' = "done"
  /\ UNCHANGED <<fs, existing_count, exc, dataset, phenotypic_df, csv_file,
                 events, stderr>>
  /\ UNCHANGED download_vars
  /\ UNCHANGED verify_vars

Next ==
  \/ check_existing_downloads
  \/ check_existing_listdir_fails
  \/ fetch_returns
  \/ fetch_fails_retryable
  \/ fetch_fails_unexpected
  \/ fetch_interrupted
  \/ sleep_returns
  \/ sleep_interrupted
  \/ save_phenotypic_data
  \/ save_fails
  \/ verify_cc400_files
  \/ verify_listdir_fails
  \/ summary
  \/ except_keyboard_interrupt
  \/ except_exception

Spec == Init /\ [][Next]_vars

(***************************************************************************)
(* Properties.                                                              *)
(***************************************************************************)
Fetches == {i \in DOMAIN events : events[i].op = "fetch"}
FailedFetches == {i \in Fetches : events[i].result = "raised"}
RaisedBy(x) == <<[kind |-> "raised", exc |-> x]>>
Printed(text) == \E i \in DOMAIN stdout : stdout[i].text = text

\* C1: fetch_abide_pcp is called at most max_attempts = 3 times, and once
\* max_attempts calls have failed, download_abide_cc400 has ended by raising
\* the last call's error to its caller, every wait made was followed by
\* another call of the fetch (none follows the last failure), and nothing
\* waits or fetches any more.
C1_TerminalPropagation ==
  /\ Cardinality(Fetches) <= max_attempts
  /\ Cardinality(FailedFetches) = max_attempts =>
       /\ download_result = RaisedBy(fetch_exc)
       /\ pc \in {"propagate", "done"}
       /\ Len(waits) = max_attempts - 1
       /\ \A i \in DOMAIN events :
            events[i].op = "sleep" =>
              \E j \in DOMAIN events : j > i /\ events[j].op = "fetch"

C1_Witness ==
  /\ pc = "done"
  /\ Cardinality(FailedFetches) = max_attempts
  /\ fetch_exc = <<Exc("requests.ConnectionError", 0)>>
  /\ download_result = RaisedBy(fetch_exc)

\* a connection error, a timeout, or an HTTP error with a retryable status
ClaimedTransient(e) ==
  \/ isinstance(e, "requests.ConnectionError")
  \/ isinstance(e, "requests.Timeout")
  \/ isinstance(e, "TimeoutError")
  \/ isinstance(e, "requests.HTTPError") /\ e.status \in {429, 500, 502, 503, 504}

\* C2 (as claimed): a failure of the fetch that is a connection error, a
\* timeout or an HTTP error with a status in {429, 500, 502, 503, 504}
\* reaches the caller of download_abide_cc400 only when max_attempts calls
\* of the fetch have failed.
C2_TransientRetriedUntilExhausted ==
  (/\ fetch_exc # <<>>
   /\ ClaimedTransient(fetch_exc[1])
   /\ download_result = RaisedBy(fetch_exc))
    => Cardinality(FailedFetches) = max_attempts

\* anything other than a connection error or a timeout
ClaimedNonTransient(e) ==
  /\ ~isinstance(e, "requests.ConnectionError")
  /\ ~isinstance(e, "requests.Timeout")
  /\ ~isinstance(e, "TimeoutError")

\* C3: once the fetch has raised anything other than a connection error or a
\* timeout, download_abide_cc400 has ended by raising that same error, the
\* failed call is the last thing it did, and only the earlier failures were
\* waited for.
C3_NonTransientAbortsAtOnce ==
  (fetch_exc # <<>> /\ ClaimedNonTransient(fetch_exc[1])) =>
    /\ download_result = RaisedBy(fetch_exc)
    /\ exc = fetch_exc
    /\ pc \in {"propagate", "done"}
    /\ events[Len(events)] = Event("fetch", "raised")
    /\ Len(waits) = Cardinality(Fetches) - 1

C3_Witness ==
  /\ fetch_exc = <<Exc("requests.HTTPError", 404)>>
  /\ Cardinality(Fetches) = max_attempts
  /\ pc = "done"

\* C4: each backoff wait of one call of download_abide_cc400 is strictly
\* longer than the one before it (so also at least as long).
C4_BackoffIncreases ==
  \A i \in 1..(Len(waits) - 1) : waits[i + 1] >= waits[i] /\ waits[i + 1] > waits[i]

C4_Witness == Len(waits) = 2 /\ waits[1] = 20 /\ waits[2] = 40

\* C5: when verify_cc400_files has listed the directory, matched and missing
\* partition the expected set, matched and extra partition the identifiers
\* found in the directory, and the reported sizes add up accordingly.
C5_Partition ==
  (dir_found = <<TRUE>> /\ stats # <<>>) =>
    LET keysA == DOMAIN dir_subjects
    IN  /\ in_both \cup missing_from_dir = csv_subjects
        /\ in_both \cap missing_from_dir = {}
        /\ in_both \cup extra_in_dir = keysA
        /\ in_both \cap extra_in_dir = {}
        /\ stats[1].matched + stats[1].missing = Cardinality(csv_subjects)
        /\ stats[1].matched + stats[1].extra = Cardinality(keysA)

C5_Witness ==
  /\ stats # <<>>
  /\ in_both # {}
  /\ missing_from_dir # {}
  /\ extra_in_dir # {}

\* C6 (as claimed): when the directory does not exist at verification time,
\* verify_cc400_files returns a report of zero matched, zero extra and every
\* expected identifier missing, and no exception is raised in it or in main.
C6_AbsentDirectoryReported ==
  dir_found = <<FALSE>> =>
    /\ stats # <<>>
    /\ stats[1].matched = 0
    /\ stats[1].extra = 0
    /\ stats[1].missing = Cardinality(csv_subjects)
    /\ exc = <<>>

\* the user has interrupted the fetch or the backoff wait
Interrupted ==
  \/ fetch_exc = <<Exc("KeyboardInterrupt", 0)>>
  \/ \E i \in DOMAIN events : events[i] = Event("sleep", "raised")

\* C7: once the user has interrupted the fetch or the backoff wait, the
\* interrupted call is the last thing download_abide_cc400 did, the
\* KeyboardInterrupt is what it raised, and main ends by reporting an
\* interruption, not an error and not an exhausted retry loop.
C7_CancellationIsDistinct ==
  Interrupted =>
    /\ download_result = RaisedBy(<<Exc("KeyboardInterrupt", 0)>>)
    /\ pc \in {"propagate", "done"}
    /\ events[Len(events)].op \in {"fetch", "sleep"}
    /\ events[Len(events)].result = "raised"
    /\ pc = "done" =>
         /\ outcome = "interrupted"
         /\ Printed("Download interrupted by user")
         /\ ~Printed("Error occurred")
         /\ ~Printed("Unexpected error")
         /\ ~Printed("Failed after attempts")

C7_Witness ==
  /\ pc = "done"
  /\ outcome = "interrupted"
  /\ events[Len(events)] = Event("sleep", "raised")
  /\ Len(waits) = 2

\* C8 (as claimed): when an exception other than a user interruption ends
\* main, the error's class and message are printed and the exit status is
\* not zero.
C8_ErrorExitsNonZero ==
  (pc = "done" /\ outcome \in {"error", "uncaught"}) =>
    /\ exit_status # <<0>>
    /\ \/ \E i \in DOMAIN stdout :
            stdout[i].text = "Error occurred" /\ stdout[i].cls = exc[1].cls
       \/ \E i \in DOMAIN stderr :
            stderr[i].text = "Traceback" /\ stderr[i].cls = exc[1].cls

\* the three spellings of identifier 123, and a file named for an identifier
Is123(cell) ==
  cell \in {IntCell(123), StrCell(<<"1","2","3">>), StrCell(Id123)}

HasFileFor(id) ==
  \E f \in fs.files : endswith(lower(f), <<"_">> \o id \o PatternTail)

\* C9: verify_cc400_files normalizes "123", "0000123" and the number 123 to
\* "0000123", and when the directory holds a file named
\* ..._0000123_rois_cc400.1D each of them is matched and not missing.
C9_NormalizationInvariance ==
  dir_found # <<>> =>
    \A i \in DOMAIN phenotypic_df :
      Is123(phenotypic_df[i].SUB_ID) =>
        /\ phenotypic_df[i].SUB_ID_STR = Id123
        /\ Id123 \in csv_subjects
        /\ (stats # <<>> /\ HasFileFor(Id123)) =>
             /\ Id123 \in in_both
             /\ Id123 \notin missing_from_dir

C9_Witness ==
  /\ stats # <<>>
  /\ HasFileFor(Id123)
  /\ Len(phenotypic_df) = 3
  /\ \A i \in DOMAIN phenotypic_df : Is123(phenotypic_df[i].SUB_ID)
  /\ in_both = {Id123}

\* C10: the table is saved only after the fetch has returned a dataset, the
\* reconciliation runs only after the table has been saved, and when
\* download_abide_cc400 raises neither of them happens.
C10_StepOrder ==
  /\ \A i \in DOMAIN events :
       /\ events[i].op = "save" =>
            \E j \in 1..(i - 1) : events[j] = Event("fetch", "ok")
       /\ events[i].op = "verify" =>
            \E j \in 1..(i - 1) : events[j] = Event("save", "ok")
  /\ csv_file # <<>> =>
       download_result = <<[kind |-> "returned", exc |-> <<>>]>>
  /\ dir_found # <<>> => csv_file # <<>>
  /\ (download_result # <<>> /\ download_result[1].kind = "raised") =>
       /\ csv_file = <<>>
       /\ dir_found = <<>>
       /\ \A i \in DOMAIN events : events[i].op \in {"fetch", "sleep"}

C10_Witness ==
  /\ pc = "done"
  /\ outcome = "completed"
  /\ \E i, j, k \in DOMAIN events :
       /\ i < j /\ j < k
       /\ events[i] = Event("fetch", "ok")
       /\ events[j] = Event("save", "ok")
       /\ events[k] = Event("verify", "ok")

=============================================================================
